---- MODULE Spec2Model ----
(***************************************************************************)
(* Bouncing-ball demo: the Ball State Store and Collision Resolver         *)
(* (hooks/useBalls), the per-ball integrator (components/Ball) and the     *)
(* manager (components/BallManager).                                       *)
(*                                                                         *)
(* Numbers.  A JavaScript `number` holding a length or a velocity is       *)
(* modelled in fixed point, Unit units to the pixel; a dimensionless       *)
(* coefficient (mass, friction, bounce, restitution, a component of a unit *)
(* normal) is modelled in fixed point with Coef units to 1.  Every product *)
(* and quotient rounds to the nearest unit (half away from zero), so the   *)
(* arithmetic is symmetric under negation, as IEEE arithmetic is.          *)
(* Math.sqrt is the integer square root of the fixed-point radicand.       *)
(*                                                                         *)
(* Objects.  updateBall compares fields with !==, which on the position    *)
(* and velocity objects is reference identity.  The model keeps, for each  *)
(* ball, whether the Store's position (velocity) object is the very object *)
(* the integrator holds in its state (posShared, velShared).               *)
(***************************************************************************)
EXTENDS Integers, Sequences, FiniteSets, TLC

\* ------------------------------------------------------------ numbers

Unit == 100
Coef == 10000

Abs(a) == IF a < 0 THEN -a ELSE a
Min(a, b) == IF a < b THEN a ELSE b
Max(a, b) == IF a > b THEN a ELSE b

\* a / b rounded to the nearest integer, half away from zero (any b # 0)
RDiv(a, b) ==
  LET n == IF b < 0 THEN -a ELSE a
      d == Abs(b)
  IN  IF n >= 0 THEN (n + d \div 2) \div d ELSE -((-n + d \div 2) \div d)

\* v * c, c a coefficient
Scale(v, c) == RDiv(v * c, Coef)
\* the coefficient a / b
Ratio(a, b) == RDiv(a * Coef, b)
\* v / c, c a coefficient
Unscale(v, c) == RDiv(v * Coef, c)

Px(n) == n * Unit

RECURSIVE SqrtSearch(_, _, _)
SqrtSearch(n, lo, hi) ==
  IF lo >= hi THEN lo
  ELSE LET mid == (lo + hi + 1) \div 2
       IN  IF mid * mid <= n THEN SqrtSearch(n, mid, hi)
           ELSE SqrtSearch(n, lo, mid - 1)

\* Math.sqrt on a fixed-point radicand: the floor of the square root
Sqrt(n) == SqrtSearch(n, 0, 46340)

Vec(x, y) == [x |-> x, y |-> y]
ZeroVec == Vec(0, 0)

\* ------------------------------------------------- physics constants

\* Math.pow(size / 80, 2)
MassOf(size) == LET r == Ratio(size, Px(80)) IN Scale(r, r)

restitution == (7 * Coef) \div 10
cooldownMs == 50
\* the "+ 2" separation buffer
overlapBuffer == Px(2)

\* --------------------------------------------- Collision Resolver

\* variant for C7: the cooldown ends one instant early, at exactly cooldownMs
IsCandidateAtCooldown(ball, currentBallId, currentTime) ==
  /\ ball.id # currentBallId
  /\ ~ball.isDragging
  /\ (ball.lastCollisionTime = 0 \/ currentTime - ball.lastCollisionTime >= cooldownMs)

\* lines 108-113: the candidates of one check, in roster order
IsCandidate(ball, currentBallId, currentTime) ==
  /\ ball.id # currentBallId
  /\ ~ball.isDragging
  /\ (ball.lastCollisionTime = 0 \/ currentTime - ball.lastCollisionTime > cooldownMs)

currentBallsState(currentBalls, currentBallId, currentTime) ==
  SelectSeq(currentBalls, LAMBDA ball : IsCandidate(ball, currentBallId, currentTime))

\* lines 118-121: the centre-to-centre vector and the two distances.  The
\* square root is taken only when both components are below minDistance;
\* otherwise the distance is at least minDistance and any such value takes
\* the same branch.
Geometry(currentBall, otherBall, newPosition) ==
  LET dx == newPosition.x + RDiv(currentBall.size, 2)
              - (otherBall.position.x + RDiv(otherBall.size, 2))
      dy == newPosition.y + RDiv(currentBall.size, 2)
              - (otherBall.position.y + RDiv(otherBall.size, 2))
      minDistance == RDiv(currentBall.size + otherBall.size, 2)
      distance == IF Abs(dx) >= minDistance \/ Abs(dy) >= minDistance
                  THEN Max(Abs(dx), Abs(dy))
                  ELSE Sqrt(dx * dx + dy * dy)
  IN  [dx |-> dx, dy |-> dy, distance |-> distance, minDistance |-> minDistance]

\* variant for C6: balls that just touch count as overlapping
OverlappingOrTouching(g) == g.distance <= g.minDistance /\ g.distance > 0

\* line 124
Overlapping(g) == g.distance < g.minDistance /\ g.distance > 0

\* lines 128-136: the unit normal and the relative velocity along it
NormalOf(g) == Vec(Ratio(g.dx, g.distance), Ratio(g.dy, g.distance))

SpeedAlong(newVelocity, otherBall, n) ==
  RDiv((newVelocity.x - otherBall.velocity.x) * n.x
         + (newVelocity.y - otherBall.velocity.y) * n.y, Coef)

\* variant for C23: the impulse without the factor 2
ImpulseSingle(speed, totalMass) == Unscale(Scale(speed, restitution), totalMass)

\* line 148
Impulse(speed, totalMass) == Unscale(Scale(2 * speed, restitution), totalMass)

\* lines 151-152: the acting ball's velocity after the impulse
ActingVelocity(newVelocity, impulse, mass2, n) ==
  Vec(newVelocity.x - Scale(Scale(impulse, mass2), n.x),
      newVelocity.y - Scale(Scale(impulse, mass2), n.y))

\* variant for C8: the partner receives the impulse unweighted by mass1
PartnerVelocityUnweighted(otherBall, impulse, mass1, n) ==
  Vec(otherBall.velocity.x + Scale(impulse, n.x),
      otherBall.velocity.y + Scale(impulse, n.y))

\* lines 168-171: the partner's deferred velocity
PartnerVelocity(otherBall, impulse, mass1, n) ==
  Vec(otherBall.velocity.x + Scale(Scale(impulse, mass1), n.x),
      otherBall.velocity.y + Scale(Scale(impulse, mass1), n.y))

\* variant for C5: hasCollided is set only where an impulse is applied
MarkCollidedOnImpulse(acc) == acc

\* line 125 with line 139: an overlap whose velocities are separating
MarkCollided(acc) == [acc EXCEPT !.collided = TRUE]

\* lines 155-163: the acting ball pushed along the normal
ActingPosition(newPosition, overlap, mass1Factor, n) ==
  Vec(newPosition.x + Scale(Scale(overlap, n.x), mass1Factor),
      newPosition.y + Scale(Scale(overlap, n.y), mass1Factor))

\* lines 172-175: the partner pushed the other way
PartnerPosition(otherBall, overlap, mass2Factor, n) ==
  Vec(otherBall.position.x - Scale(Scale(overlap, n.x), mass2Factor),
      otherBall.position.y - Scale(Scale(overlap, n.y), mass2Factor))

\* lines 141-178: the impulse response of one overlapping, approaching pair
Respond(otherBall, acc, currentTime, n, impulse, overlap, mass1, mass2) ==
  [velocity |-> ActingVelocity(acc.velocity, impulse, mass2, n),
   position |-> ActingPosition(acc.position, overlap, Ratio(mass2, mass1 + mass2), n),
   collided |-> TRUE,
   otherBallUpdates |-> Append(acc.otherBallUpdates,
     [id |-> otherBall.id,
      velocity |-> PartnerVelocity(otherBall, impulse, mass1, n),
      position |-> PartnerPosition(otherBall, overlap, Ratio(mass1, mass1 + mass2), n),
      isAnimating |-> TRUE,
      lastCollisionTime |-> currentTime])]

\* lines 136-148
ResolveSpeed(otherBall, acc, currentTime, n, speed, overlap, mass1, mass2) ==
  IF speed > 0 THEN MarkCollided(acc)
  ELSE Respond(otherBall, acc, currentTime, n, Impulse(speed, mass1 + mass2),
               overlap, mass1, mass2)

\* lines 128-136
ResolveNormal(currentBall, otherBall, acc, currentTime, g, n) ==
  ResolveSpeed(otherBall, acc, currentTime, n, SpeedAlong(acc.velocity, otherBall, n),
               g.minDistance - g.distance + overlapBuffer,
               MassOf(currentBall.size), MassOf(otherBall.size))

\* line 124
ResolveGeometry(currentBall, otherBall, acc, currentTime, g) ==
  IF ~Overlapping(g) THEN acc
  ELSE ResolveNormal(currentBall, otherBall, acc, currentTime, g, NormalOf(g))

\* lines 116-179: one iteration of the loop over the candidates
ResolveOne(currentBall, otherBall, acc, currentTime) ==
  ResolveGeometry(currentBall, otherBall, acc, currentTime,
                  Geometry(currentBall, otherBall, acc.position))

\* variant for C22: one batched solve, every candidate resolved against the
\* state the loop started from and the adjustments added up
RECURSIVE ResolveEachFrom(_, _, _, _, _, _)
ResolveEachFrom(currentBall, cands, i, start, acc, currentTime) ==
  IF i > Len(cands) THEN acc
  ELSE LET one == ResolveOne(currentBall, cands[i],
                             [start EXCEPT !.collided = acc.collided,
                                           !.otherBallUpdates = acc.otherBallUpdates],
                             currentTime)
       IN  ResolveEachFrom(currentBall, cands, i + 1, start,
             [one EXCEPT
                !.position = Vec(acc.position.x + one.position.x - start.position.x,
                                 acc.position.y + one.position.y - start.position.y),
                !.velocity = Vec(acc.velocity.x + one.velocity.x - start.velocity.x,
                                 acc.velocity.y + one.velocity.y - start.velocity.y)],
             currentTime)

ResolveAllBatched(currentBall, cands, i, acc, currentTime) ==
  ResolveEachFrom(currentBall, cands, i, acc, acc, currentTime)

\* lines 116-179: the loop over the candidates, in the order of the roster
RECURSIVE ResolveAll(_, _, _, _, _)
ResolveAll(currentBall, cands, i, acc, currentTime) ==
  IF i > Len(cands) THEN acc
  ELSE ResolveAll(currentBall, cands, i + 1,
                  ResolveOne(currentBall, cands[i], acc, currentTime), currentTime)

FindBall(currentBalls, id) ==
  LET idx == {i \in 1..Len(currentBalls) : currentBalls[i].id = id}
  IN  IF idx = {} THEN 0 ELSE CHOOSE i \in idx : \A j \in idx : i <= j

\* lines 89-188; Date.now() is the argument currentTime
checkCollisions(currentBallId, position, velocity, currentBalls, currentTime) ==
  LET k == FindBall(currentBalls, currentBallId)
      start == [velocity |-> velocity, position |-> position,
                collided |-> FALSE, otherBallUpdates |-> <<>>]
  IN  IF k = 0 THEN start
      ELSE ResolveAll(currentBalls[k],
                      currentBallsState(currentBalls, currentBallId, currentTime),
                      1, start, currentTime)

\* ------------------------------------------------------------- state

VARIABLES
  balls,            \* useBalls: the roster, a sequence of BallData
  nextId,           \* addBall: the ids handed out so far (an id is never reused)
  now,              \* Date.now(), in ms
  containerEl,      \* the size of the balls' parent element (its bounding rect)
  position,         \* Ball: useState position, per ball id
  velocity,         \* Ball: useState velocity
  isAnimating,      \* Ball: useState isAnimating (and isAnimatingRef)
  isDragging,       \* Ball: useState isDragging (and isDraggingRef)
  containerBounds,  \* Ball: useState containerBounds
  dragBounds,       \* Ball: the containerBounds the mouse listeners closed over
  dragOffsetRef,    \* Ball: dragOffsetRef
  lastMousePosRef,  \* Ball: lastMousePosRef
  dragVelocityRef,  \* Ball: dragVelocityRef
  safetyTimeoutAt,  \* Ball: when the pending safety timeout is due (0: none)
  posShared,        \* the Store's position object is the integrator's own
  velShared,        \* the Store's velocity object is the integrator's own
  last,             \* the operation that produced this state, and what it did
  steps,            \* operations performed so far
  call,             \* the arguments of a direct checkCollisions call
  result            \* the CollisionResult it returned

storeVars == <<balls, nextId>>
ballVars == <<position, velocity, isAnimating, isDragging, containerBounds,
              dragBounds, dragOffsetRef, lastMousePosRef, dragVelocityRef,
              safetyTimeoutAt, posShared, velShared>>
callVars == <<call, result>>
vars == <<storeVars, now, containerEl, ballVars, last, steps, callVars>>

\* ------------------------------------------------------------ bounds

MaxBalls == 2
MaxSteps == 5
MaxTime == 64
StartTime == 1000

Ids == 1..MaxBalls

NoCall == [id |-> 0, position |-> ZeroVec, velocity |-> ZeroVec, done |-> FALSE]
NoResult == [velocity |-> ZeroVec, position |-> ZeroVec,
             collided |-> FALSE, otherBallUpdates |-> <<>>]

\* the fields of a Ball instance that BallManager has not mounted
Unmounted ==
  /\ position = [i \in Ids |-> ZeroVec]
  /\ velocity = [i \in Ids |-> ZeroVec]
  /\ isAnimating = [i \in Ids |-> FALSE]
  /\ isDragging = [i \in Ids |-> FALSE]
  /\ containerBounds = [i \in Ids |-> [width |-> 0, height |-> 0]]
  /\ dragBounds = [i \in Ids |-> [width |-> 0, height |-> 0]]
  /\ dragOffsetRef = [i \in Ids |-> ZeroVec]
  /\ lastMousePosRef = [i \in Ids |-> ZeroVec]
  /\ dragVelocityRef = [i \in Ids |-> ZeroVec]
  /\ safetyTimeoutAt = [i \in Ids |-> 0]
  /\ posShared = [i \in Ids |-> FALSE]
  /\ velShared = [i \in Ids |-> FALSE]

\* -------------------------------------------------- Ball State Store

\* lines 42-55: the roster entry of a new ball
newBall(id, initialX, initialY, size) ==
  [id |-> id, position |-> Vec(initialX, initialY), velocity |-> ZeroVec,
   isAnimating |-> TRUE, isDragging |-> FALSE, size |-> size,
   lastCollisionTime |-> 0]

addBall(prev, id, initialX, initialY, size) ==
  Append(prev, newBall(id, initialX, initialY, size))

\* lines 57-59
removeBall(prev, id) == SelectSeq(prev, LAMBDA ball : ball.id # id)

\* variant for C14: a merge that forgets when the ball was last hit
MergeForgetful(ball, updates) ==
  [f \in DOMAIN ball |->
     IF f \in DOMAIN updates THEN updates[f]
     ELSE IF f = "lastCollisionTime" THEN 0 ELSE ball[f]]

\* { ...ball, ...updates }
Merge(ball, updates) ==
  [f \in DOMAIN ball |-> IF f \in DOMAIN updates THEN updates[f] ELSE ball[f]]

\* line 70, existingBall[key] !== updates[key]: value inequality on a boolean
\* or a number, reference inequality on the position and velocity objects
\* (samePos, sameVel: the supplied object is the stored one)
FieldDiffers(existingBall, updates, key, samePos, sameVel) ==
  IF key = "position" THEN ~samePos
  ELSE IF key = "velocity" THEN ~sameVel
  ELSE existingBall[key] # updates[key]

\* lines 61-79; wrote: setBalls was handed a new array
updateBall(prev, id, updates, samePos, sameVel) ==
  LET k == FindBall(prev, id)
  IN  IF k = 0 THEN [balls |-> prev, wrote |-> FALSE]
      ELSE IF ~\E key \in DOMAIN updates :
                 FieldDiffers(prev[k], updates, key, samePos, sameVel)
      THEN [balls |-> prev, wrote |-> FALSE]
      ELSE [balls |-> [i \in 1..Len(prev) |->
                         IF prev[i].id = id THEN Merge(prev[i], updates) ELSE prev[i]],
            wrote |-> TRUE]

\* lines 85-87
clearAllBalls == <<>>

\* variant for C15: a batch that also creates the balls it does not find
applyCollisionUpdatesUpsert(prev, updates) ==
  [i \in 1..Len(prev) |->
     LET us == SelectSeq(updates, LAMBDA u : u.id = prev[i].id)
     IN  IF Len(us) > 0 THEN Merge(prev[i], us[1]) ELSE prev[i]]
  \o [k \in 1..Len(SelectSeq(updates, LAMBDA u : \A i \in 1..Len(prev) : prev[i].id # u.id)) |->
       Merge([id |-> 0, position |-> ZeroVec, velocity |-> ZeroVec, isAnimating |-> TRUE,
              isDragging |-> FALSE, size |-> Px(80), lastCollisionTime |-> 0],
             SelectSeq(updates, LAMBDA u : \A i \in 1..Len(prev) : prev[i].id # u.id)[k])]

\* variant for C13: a batch whose first update is merged into every ball
applyCollisionUpdatesToAll(prev, updates) ==
  IF Len(updates) = 0 THEN prev
  ELSE [i \in 1..Len(prev) |-> Merge(prev[i], updates[1])]

\* lines 190-197
applyCollisionUpdates(prev, updates) ==
  IF Len(updates) = 0 THEN prev
  ELSE [i \in 1..Len(prev) |->
          LET us == SelectSeq(updates, LAMBDA u : u.id = prev[i].id)
          IN  IF Len(us) > 0 THEN Merge(prev[i], us[1]) ELSE prev[i]]

RosterIds(roster) == {roster[i].id : i \in 1..Len(roster)}
UpdateIds(updates) == {updates[i].id : i \in 1..Len(updates)}
StoreBall(id) == balls[FindBall(balls, id)]
Mounted(id) == id \in RosterIds(balls)

\* ---------------------------------------------- Per-Ball Integrator

\* lines 55-59
gravity(size) == Scale((6 * Unit) \div 10, Min(MassOf(size), 2 * Coef))
bounce(size) ==
  Scale((85 * Coef) \div 100, Coef - Scale(MassOf(size), Coef \div 10))
friction(size) == (997 * Coef) \div 1000 + Scale(MassOf(size), Coef \div 1000)
\* variant for C12: a release that ignores the ball's mass
momentumScaleFlat(size) == (75 * Coef) \div 100
momentumScale(size) ==
  Scale((75 * Coef) \div 100, Coef + Scale(MassOf(size), (2 * Coef) \div 10))

\* Math.max(0, Math.min(limit, v))
Clamp(v, limit) == Max(0, Min(limit, v))

\* lines 212-215: the side walls
WallStep(p, v, bounds, size) ==
  IF p.x <= 0 \/ p.x >= bounds.width - size
  THEN [position |-> Vec(IF p.x <= 0 THEN 0 ELSE bounds.width - size, p.y),
        velocity |-> Vec(-Scale(v.x, bounce(size)), v.y)]
  ELSE [position |-> p, velocity |-> v]

\* variant for C10: a floor that never zeroes a small rebound
FloorStepNoRest(p, v, bounds, size) ==
  LET currentFloorY == bounds.height - size
      newVelY == -Scale(v.y, bounce(size))
  IN  IF p.y >= currentFloorY
      THEN [position |-> Vec(p.x, currentFloorY),
            velocity |-> Vec(v.x, newVelY),
            settle |-> Abs(newVelY) < Unit \div 10 /\ Abs(v.x) < Px(1)]
      ELSE [position |-> p, velocity |-> v, settle |-> FALSE]

\* variant for C11: a floor that stops the ball whatever its horizontal speed
FloorStepStopsAny(p, v, bounds, size) ==
  LET currentFloorY == bounds.height - size
      reflected == -Scale(v.y, bounce(size))
      newVelY == IF Abs(reflected) < Px(3) THEN 0 ELSE reflected
  IN  IF p.y >= currentFloorY
      THEN [position |-> Vec(p.x, currentFloorY),
            velocity |-> Vec(v.x, newVelY),
            settle |-> Abs(newVelY) < Unit \div 10]
      ELSE [position |-> p, velocity |-> v, settle |-> FALSE]

\* lines 218-233: the floor; settle: the early return of lines 229-232
FloorStep(p, v, bounds, size) ==
  LET currentFloorY == bounds.height - size
      reflected == -Scale(v.y, bounce(size))
      newVelY == IF Abs(reflected) < Px(3) THEN 0 ELSE reflected
  IN  IF p.y >= currentFloorY
      THEN [position |-> Vec(p.x, currentFloorY),
            velocity |-> Vec(v.x, newVelY),
            settle |-> Abs(newVelY) < Unit \div 10 /\ Abs(v.x) < Px(1)]
      ELSE [position |-> p, velocity |-> v, settle |-> FALSE]

\* lines 236-239: the ceiling
CeilingStep(p, v, size) ==
  IF p.y <= 0
  THEN [position |-> Vec(p.x, 0), velocity |-> Vec(v.x, -Scale(v.y, bounce(size)))]
  ELSE [position |-> p, velocity |-> v]

\* lines 245-248: the position the tick stores
ClampStep(p, bounds, size) ==
  Vec(Clamp(p.x, bounds.width - size), Clamp(p.y, bounds.height - size))

\* lines 187-188: friction and gravity
FrictionGravity(prevVel, size) ==
  Vec(Scale(prevVel.x, friction(size)), prevVel.y + gravity(size))

\* lines 190-191: the provisional position and velocity
Tentative(prevPos, v0) ==
  [position |-> Vec(prevPos.x + v0.x, prevPos.y + v0.y), velocity |-> v0]

\* lines 194-195: the resolver is consulted when the roster allBallsRef holds
\* has more than one ball
Consult(id, tent, roster, currentTime) ==
  IF Len(roster) > 1
  THEN checkCollisions(id, tent.position, tent.velocity, roster, currentTime)
  ELSE [velocity |-> tent.velocity, position |-> tent.position,
        collided |-> FALSE, otherBallUpdates |-> <<>>]

\* lines 197-201
Adopt(tent, check) ==
  IF check.collided
  THEN [position |-> check.position, velocity |-> check.velocity]
  ELSE tent

\* lines 241-248: the velocity and the clamped position a tick stores
Stored(c, bounds, size, animating) ==
  [position |-> ClampStep(c.position, bounds, size),
   velocity |-> IF animating THEN c.velocity ELSE ZeroVec,
   isAnimating |-> animating]

\* lines 229-239: the settle return, else the ceiling
AfterFloor(f, bounds, size) ==
  IF f.settle THEN Stored(f, bounds, size, FALSE)
  ELSE Stored(CeilingStep(f.position, f.velocity, size), bounds, size, TRUE)

AfterWalls(w, bounds, size) ==
  AfterFloor(FloorStep(w.position, w.velocity, bounds, size), bounds, size)

\* lines 210-248: walls, floor, ceiling and clamp, from position and velocity m
Boundaries(m, bounds, size) ==
  AfterWalls(WallStep(m.position, m.velocity, bounds, size), bounds, size)

Outcome(final, tent, consulted, check) ==
  [position |-> final.position,
   velocity |-> final.velocity,
   isAnimating |-> final.isAnimating,
   tentative |-> tent,
   consulted |-> consulted,
   check |-> check,
   otherBallUpdates |-> IF check.collided THEN check.otherBallUpdates ELSE <<>>]

IntegrateChecked(tent, check, bounds, size, roster) ==
  Outcome(Boundaries(Adopt(tent, check), bounds, size), tent, Len(roster) > 1, check)

IntegrateFrom(id, size, tent, bounds, roster, currentTime) ==
  IntegrateChecked(tent, Consult(id, tent, roster, currentTime), bounds, size, roster)

\* lines 182-249: one tick of ball id, from its state and the roster
\* allBallsRef holds; check: the resolver's result.  The setVelocity updater
\* runs inside the setPosition updater, in program order, so the position
\* returned at lines 245-248 is the one the velocity updater computed.
Integrate(id, size, prevPos, prevVel, bounds, roster, currentTime) ==
  IntegrateFrom(id, size, Tentative(prevPos, FrictionGravity(prevVel, size)),
                bounds, roster, currentTime)

\* lines 280-293: what the effect hands to onUpdate, when it runs
Reports(roster, dragging) == Len(roster) > 1 /\ ~dragging

ReportOf(pos, vel, animating, dragging, size) ==
  [position |-> pos, velocity |-> vel, isAnimating |-> animating,
   isDragging |-> dragging, size |-> size]

\* the supplied fields all have the values the roster entry already has
SameValues(ball, updates) == \A key \in DOMAIN updates : ball[key] = updates[key]

\* ------------------------------------------------------- operations

\* the balls' onUpdate effects of one commit, in roster order: every ball of
\* `who` hands rep[id] to updateBall.  wrote: the calls that replaced the
\* roster; redundant: the calls whose fields all had the stored values.
RECURSIVE ReportEach(_, _, _, _, _, _, _)
ReportEach(roster, order, k, who, rep, samePos, sameVel) ==
  IF k > Len(order) THEN [balls |-> roster, wrote |-> {}, redundant |-> {}]
  ELSE
    LET id == order[k]
    IN  IF id \notin who \/ FindBall(roster, id) = 0
        THEN ReportEach(roster, order, k + 1, who, rep, samePos, sameVel)
        ELSE
          LET u == updateBall(roster, id, rep[id], samePos[id], sameVel[id])
              same == SameValues(roster[FindBall(roster, id)], rep[id])
              rest == ReportEach(u.balls, order, k + 1, who, rep, samePos, sameVel)
          IN  [balls |-> rest.balls,
               wrote |-> rest.wrote \cup (IF u.wrote THEN {id} ELSE {}),
               redundant |-> rest.redundant \cup (IF same THEN {id} ELSE {})]

Order(roster) == [i \in 1..Len(roster) |-> roster[i].id]

\* the state of every mounted ball, as its effect would report it
CurrentReports(pos, vel, animating, dragging, roster) ==
  [i \in Ids |->
     ReportOf(pos[i], vel[i], animating[i], dragging[i],
              IF FindBall(roster, i) = 0 THEN 0 ELSE roster[FindBall(roster, i)].size)]

Op(op, id) ==
  [op |-> op, id |-> id, roster |-> <<>>, dragging |-> {},
   tentative |-> [position |-> ZeroVec, velocity |-> ZeroVec],
   consulted |-> FALSE, check |-> NoResult, bounds |-> [width |-> 0, height |-> 0],
   reported |-> {}, redundant |-> {}, wrote |-> {}]

WithReports(l, who, r) ==
  [l EXCEPT !.reported = who, !.redundant = r.redundant, !.wrote = r.wrote]

\* BallManager lines 14-38 with useBalls.addBall, then the mount of the new
\* Ball: its state from the props (lines 25-29), the measured bounds (lines
\* 77-89) and its first onUpdate effect (lines 280-293)
handleAddBall(x, y, size) ==
  /\ nextId <= MaxBalls
  /\ LET id == nextId
         added == addBall(balls, id, x, y, size)
         who == IF Reports(added, FALSE) THEN {id} ELSE {}
         pos1 == [position EXCEPT ![id] = Vec(x, y)]
         vel1 == [velocity EXCEPT ![id] = ZeroVec]
         ani1 == [isAnimating EXCEPT ![id] = TRUE]
         r == ReportEach(added, Order(added), 1, who,
                         CurrentReports(pos1, vel1, ani1, isDragging, added),
                         [i \in Ids |-> FALSE], [i \in Ids |-> FALSE])
     IN  /\ balls' = r.balls
         /\ nextId' = nextId + 1
         /\ position' = pos1
         /\ velocity' = vel1
         /\ isAnimating' = ani1
         /\ containerBounds' = [containerBounds EXCEPT ![id] = containerEl]
         /\ posShared' = [posShared EXCEPT ![id] = id \in r.wrote]
         /\ velShared' = [velShared EXCEPT ![id] = id \in r.wrote]
         /\ last' = WithReports(Op("add", id), who, r)
  /\ UNCHANGED <<now, containerEl, isDragging, dragBounds, dragOffsetRef,
                 lastMousePosRef, dragVelocityRef, safetyTimeoutAt, callVars>>

\* the unmount of the Balls whose ids left the roster
Unmount(gone) ==
  /\ position' = [i \in Ids |-> IF i \in gone THEN ZeroVec ELSE position[i]]
  /\ velocity' = [i \in Ids |-> IF i \in gone THEN ZeroVec ELSE velocity[i]]
  /\ isAnimating' = [i \in Ids |-> IF i \in gone THEN FALSE ELSE isAnimating[i]]
  /\ isDragging' = [i \in Ids |-> IF i \in gone THEN FALSE ELSE isDragging[i]]
  /\ containerBounds' = [i \in Ids |-> IF i \in gone THEN [width |-> 0, height |-> 0]
                                       ELSE containerBounds[i]]
  /\ dragBounds' = [i \in Ids |-> IF i \in gone THEN [width |-> 0, height |-> 0]
                                  ELSE dragBounds[i]]
  /\ dragOffsetRef' = [i \in Ids |-> IF i \in gone THEN ZeroVec ELSE dragOffsetRef[i]]
  /\ lastMousePosRef' = [i \in Ids |-> IF i \in gone THEN ZeroVec ELSE lastMousePosRef[i]]
  /\ dragVelocityRef' = [i \in Ids |-> IF i \in gone THEN ZeroVec ELSE dragVelocityRef[i]]
  /\ safetyTimeoutAt' = [i \in Ids |-> IF i \in gone THEN 0 ELSE safetyTimeoutAt[i]]
  /\ posShared' = [i \in Ids |-> IF i \in gone THEN FALSE ELSE posShared[i]]
  /\ velShared' = [i \in Ids |-> IF i \in gone THEN FALSE ELSE velShared[i]]

\* the Remove button (BallManager line 160) with useBalls.removeBall
handleRemove(id) ==
  /\ Mounted(id)
  /\ balls' = removeBall(balls, id)
  /\ Unmount({id})
  /\ last' = Op("remove", id)
  /\ UNCHANGED <<nextId, now, containerEl, callVars>>

RECURSIVE RemoveEach(_, _, _)
RemoveEach(prev, snapshot, k) ==
  IF k > Len(snapshot) THEN prev
  ELSE RemoveEach(removeBall(prev, snapshot[k].id), snapshot, k + 1)

\* BallManager lines 40-42: removeBall for every ball of the rendered roster
handleClearBalls ==
  /\ Len(balls) > 0
  /\ balls' = RemoveEach(balls, balls, 1)
  /\ Unmount(RosterIds(balls))
  /\ last' = Op("clear", 0)
  /\ UNCHANGED <<nextId, now, containerEl, callVars>>

\* variant for C2: a tick that keeps reading the bounds of the first render
firstContainerBounds(id) == [width |-> Px(800), height |-> Px(600)]

\* line 177 with line 211: the bounds a tick reads are those of the render
\* that created its interval, and the interval is re-created when the bounds
\* change (line 254)
currentContainerBounds(id) == containerBounds[id]

\* the commit of a tick that computed t: the deferred updates reach the Store
\* (lines 204-206), the ball's state is replaced, and its onUpdate effect
\* (lines 280-293) runs when position.x or position.y changed
TickCommit(id, t, applied) ==
  LET hit == UpdateIds(t.otherBallUpdates)
      pos1 == [position EXCEPT ![id] = t.position]
      vel1 == [velocity EXCEPT ![id] = t.velocity]
      ani1 == [isAnimating EXCEPT ![id] = t.isAnimating]
      who == IF t.position # position[id] /\ Reports(applied, FALSE)
             THEN {id} ELSE {}
      r == ReportEach(applied, Order(applied), 1, who,
                      CurrentReports(pos1, vel1, ani1, isDragging, applied),
                      [i \in Ids |-> FALSE], [i \in Ids |-> FALSE])
  IN  /\ balls' = r.balls
      /\ position' = pos1
      /\ velocity' = vel1
      /\ isAnimating' = ani1
      /\ posShared' = [i \in Ids |-> IF i = id THEN id \in r.wrote
                                     ELSE IF i \in hit THEN FALSE ELSE posShared[i]]
      /\ velShared' = [i \in Ids |-> IF i = id THEN id \in r.wrote
                                     ELSE IF i \in hit THEN FALSE ELSE velShared[i]]
      /\ last' = WithReports(
           [Op("tick", id) EXCEPT
              !.roster = balls,
              !.dragging = {i \in Ids : isDragging[i]},
              !.tentative = t.tentative,
              !.consulted = t.consulted,
              !.check = t.check,
              !.bounds = currentContainerBounds(id)], who, r)

TickWith(id, t) ==
  \E applied \in {applyCollisionUpdates(balls, t.otherBallUpdates)} :
    TickCommit(id, t, applied)

\* lines 179-250 (animate) for ball id
animate(id) ==
  /\ Mounted(id)
  /\ isAnimating[id] /\ ~isDragging[id]
  /\ \E t \in {Integrate(id, StoreBall(id).size, position[id], velocity[id],
                          currentContainerBounds(id), balls, now)} :
       TickWith(id, t)
  /\ UNCHANGED <<nextId, now, containerEl, isDragging, containerBounds, dragBounds,
                 dragOffsetRef, lastMousePosRef, dragVelocityRef, safetyTimeoutAt,
                 callVars>>

\* lines 165-171: the effect that restarts a ball that is neither dragged
\* nor animating
ensureAnimating(id) ==
  /\ Mounted(id)
  /\ ~isDragging[id] /\ ~isAnimating[id]
  /\ isAnimating' = [isAnimating EXCEPT ![id] = TRUE]
  /\ last' = Op("forceAnimate", id)
  /\ UNCHANGED <<storeVars, now, containerEl, position, velocity, isDragging,
                 containerBounds, dragBounds, dragOffsetRef, lastMousePosRef,
                 dragVelocityRef, safetyTimeoutAt, posShared, velShared, callVars>>

\* lines 256-268: the delay of the safety timeout
safetyMs == 10000

\* variant for C20: a pointer-down after which no safety timeout is set
handleMouseDownNoTimeout(id, grab) ==
  /\ Mounted(id)
  /\ isDragging' = [isDragging EXCEPT ![id] = TRUE]
  /\ isAnimating' = [isAnimating EXCEPT ![id] = FALSE]
  /\ lastMousePosRef' = [lastMousePosRef EXCEPT
                           ![id] = Vec(position[id].x + grab.x, position[id].y + grab.y)]
  /\ dragVelocityRef' = [dragVelocityRef EXCEPT ![id] = ZeroVec]
  /\ dragOffsetRef' = [dragOffsetRef EXCEPT ![id] = grab]
  /\ dragBounds' = [dragBounds EXCEPT ![id] = containerBounds[id]]
  /\ safetyTimeoutAt' = safetyTimeoutAt
  /\ last' = Op("mouseDown", id)
  /\ UNCHANGED <<storeVars, now, containerEl, position, velocity, containerBounds,
                 posShared, velShared, callVars>>

\* lines 91-108, pointer-down on ball id at `grab` inside the ball (pointer
\* coordinates are container-local); then the listeners effect (lines 111-163)
\* closes over the bounds of this render, and the effect of lines 256-268
\* sets the safety timeout if the ball was not dragged already
handleMouseDown(id, grab) ==
  /\ Mounted(id)
  /\ isDragging' = [isDragging EXCEPT ![id] = TRUE]
  /\ isAnimating' = [isAnimating EXCEPT ![id] = FALSE]
  /\ lastMousePosRef' = [lastMousePosRef EXCEPT
                           ![id] = Vec(position[id].x + grab.x, position[id].y + grab.y)]
  /\ dragVelocityRef' = [dragVelocityRef EXCEPT ![id] = ZeroVec]
  /\ dragOffsetRef' = [dragOffsetRef EXCEPT ![id] = grab]
  /\ dragBounds' = [dragBounds EXCEPT ![id] = containerBounds[id]]
  /\ safetyTimeoutAt' = [safetyTimeoutAt EXCEPT
                           ![id] = IF isDragging[id] THEN @ ELSE now + safetyMs]
  /\ last' = Op("mouseDown", id)
  /\ UNCHANGED <<storeVars, now, containerEl, position, velocity, containerBounds,
                 posShared, velShared, callVars>>

\* variant for C21: every mounted ball follows the pointer, dragged or not
handleMouseMoveAny(delta) ==
  /\ \E i \in Ids : isDragging[i]
  /\ position' =
       [i \in Ids |->
          IF Mounted(i)
          THEN Vec(Clamp(position[i].x + delta.x, containerBounds[i].width - StoreBall(i).size),
                   Clamp(position[i].y + delta.y, containerBounds[i].height - StoreBall(i).size))
          ELSE position[i]]
  /\ posShared' = [i \in Ids |-> FALSE]
  /\ last' = Op("mouseMove", 0)
  /\ UNCHANGED <<storeVars, now, containerEl, velocity, isAnimating, isDragging,
                 containerBounds, dragBounds, dragOffsetRef, lastMousePosRef,
                 dragVelocityRef, safetyTimeoutAt, velShared, callVars>>

\* lines 115-141: a document mousemove by `delta`, seen by every dragged ball
handleMouseMove(delta) ==
  /\ \E i \in Ids : isDragging[i]
  /\ LET client == [i \in Ids |-> Vec(lastMousePosRef[i].x + delta.x,
                                     lastMousePosRef[i].y + delta.y)]
     IN  /\ dragVelocityRef' =
               [i \in Ids |->
                  IF isDragging[i]
                  THEN Vec(Scale(dragVelocityRef[i].x, Coef \div 2) + Scale(delta.x, Coef \div 2),
                           Scale(dragVelocityRef[i].y, Coef \div 2) + Scale(delta.y, Coef \div 2))
                  ELSE dragVelocityRef[i]]
         /\ lastMousePosRef' =
               [i \in Ids |-> IF isDragging[i] THEN client[i] ELSE lastMousePosRef[i]]
         /\ position' =
               [i \in Ids |->
                  IF isDragging[i]
                  THEN Vec(Clamp(client[i].x - dragOffsetRef[i].x,
                                 dragBounds[i].width - StoreBall(i).size),
                           Clamp(client[i].y - dragOffsetRef[i].y,
                                 dragBounds[i].height - StoreBall(i).size))
                  ELSE position[i]]
         /\ posShared' = [i \in Ids |-> ~isDragging[i] /\ posShared[i]]
  /\ last' = Op("mouseMove", 0)
  /\ UNCHANGED <<storeVars, now, containerEl, velocity, isAnimating, isDragging,
                 containerBounds, dragBounds, dragOffsetRef, safetyTimeoutAt,
                 velShared, callVars>>

\* the balls of `who` leave Dragging in one commit, the cleanup of lines
\* 266-267 clears their safety timeouts, and they report in roster order;
\* freshVel: the commit also stored a new velocity object
EndDrag(who, vel1, freshVel, l) ==
  LET drg1 == [i \in Ids |-> isDragging[i] /\ i \notin who]
      ani1 == [i \in Ids |-> isAnimating[i] \/ i \in who]
      reporting == IF Reports(balls, FALSE) THEN who ELSE {}
      r == ReportEach(balls, Order(balls), 1, reporting,
                      CurrentReports(position, vel1, ani1, drg1, balls),
                      posShared, [i \in Ids |-> velShared[i] /\ ~freshVel])
  IN  /\ isDragging' = drg1
      /\ safetyTimeoutAt' = [i \in Ids |-> IF i \in who THEN 0 ELSE safetyTimeoutAt[i]]
      /\ isAnimating' = ani1
      /\ velocity' = vel1
      /\ balls' = r.balls
      /\ posShared' = [i \in Ids |-> IF i \in who THEN i \in r.wrote \/ posShared[i]
                                     ELSE posShared[i]]
      /\ velShared' = [i \in Ids |-> IF i \in who
                                     THEN i \in r.wrote \/ (velShared[i] /\ ~freshVel)
                                     ELSE velShared[i]]
      /\ last' = WithReports(l, reporting, r)

\* lines 143-152: a document mouseup, seen by every dragged ball
handleMouseUp ==
  /\ \E i \in Ids : isDragging[i]
  /\ EndDrag({i \in Ids : isDragging[i]},
             [i \in Ids |->
                IF isDragging[i]
                THEN Vec(Scale(dragVelocityRef[i].x, momentumScale(StoreBall(i).size)),
                         Scale(dragVelocityRef[i].y, momentumScale(StoreBall(i).size)))
                ELSE velocity[i]],
             TRUE, Op("mouseUp", 0))
  /\ UNCHANGED <<nextId, now, containerEl, position, containerBounds, dragBounds,
                 dragOffsetRef, lastMousePosRef, dragVelocityRef, callVars>>

\* lines 270-277
handleDoubleClick(id) ==
  /\ Mounted(id)
  /\ isDragging[id]
  /\ EndDrag({id}, velocity, FALSE, Op("doubleClick", id))
  /\ UNCHANGED <<nextId, now, containerEl, position, containerBounds, dragBounds,
                 dragOffsetRef, lastMousePosRef, dragVelocityRef, callVars>>

\* lines 260-264: the safety timeout of ball id fires, once it is due
safetyTimeout(id) ==
  /\ Mounted(id)
  /\ isDragging[id]
  /\ safetyTimeoutAt[id] # 0 /\ now >= safetyTimeoutAt[id]
  /\ EndDrag({id}, velocity, FALSE, Op("safetyTimeout", id))
  /\ UNCHANGED <<nextId, now, containerEl, position, containerBounds, dragBounds,
                 dragOffsetRef, lastMousePosRef, dragVelocityRef, callVars>>

\* lines 77-89: a window resize to bounds c, measured by every mounted ball
updateBounds(c) ==
  /\ c # containerEl
  /\ containerEl' = c
  /\ containerBounds' = [i \in Ids |-> IF Mounted(i) THEN c ELSE containerBounds[i]]
  /\ last' = Op("resize", 0)
  /\ UNCHANGED <<storeVars, now, position, velocity, isAnimating, isDragging,
                 dragBounds, dragOffsetRef, lastMousePosRef, dragVelocityRef,
                 safetyTimeoutAt, posShared, velShared, callVars>>

\* the clock moves on by one timer period (line 252)
tickMs == 16

timePasses ==
  /\ now + tickMs <= StartTime + MaxTime
  /\ now' = now + tickMs
  /\ last' = Op("advance", 0)
  /\ UNCHANGED <<storeVars, containerEl, ballVars, callVars>>

\* ------------------------------------------------------ the system

AddPositions == {Vec(Px(100), 0), Vec(Px(100), Px(50)), Vec(Px(300), 0)}
AddSizes == {Px(80), Px(120)}
Containers == {[width |-> Px(800), height |-> Px(600)],
               [width |-> Px(360), height |-> Px(640)],
               [width |-> Px(100), height |-> Px(100)]}
Deltas == {Vec(0, -Px(10)), Vec(Px(30), 0)}
Grab(id) == Vec(RDiv(StoreBall(id).size, 2), RDiv(StoreBall(id).size, 2))

Init ==
  /\ balls = <<>>
  /\ nextId = 1
  /\ now = StartTime
  /\ containerEl = [width |-> Px(800), height |-> Px(600)]
  /\ Unmounted
  /\ last = Op("init", 0)
  /\ steps = 0
  /\ call = NoCall
  /\ result = NoResult

\* every operation of the system spends one step of the budget
Budget == steps < MaxSteps /\ steps' = steps + 1

AddBall(x, y, size) == Budget /\ handleAddBall(x, y, size)
RemoveBall(id) == Budget /\ handleRemove(id)
ClearBalls == Budget /\ handleClearBalls
Tick(id) == Budget /\ animate(id)
ForceAnimate(id) == Budget /\ ensureAnimating(id)
MouseDown(id) == Budget /\ handleMouseDown(id, Grab(id))
MouseMove(delta) == Budget /\ handleMouseMove(delta)
MouseUp == Budget /\ handleMouseUp
DoubleClick(id) == Budget /\ handleDoubleClick(id)
Resize(c) == Budget /\ updateBounds(c)
Advance == Budget /\ timePasses

Next ==
  \/ \E p \in AddPositions, size \in AddSizes : AddBall(p.x, p.y, size)
  \/ \E id \in Ids : RemoveBall(id)
  \/ ClearBalls
  \/ \E id \in Ids : Tick(id)
  \/ \E id \in Ids : ForceAnimate(id)
  \/ \E id \in Ids : MouseDown(id)
  \/ \E delta \in Deltas : MouseMove(delta)
  \/ MouseUp
  \/ \E id \in Ids : DoubleClick(id)
  \/ \E c \in Containers : Resize(c)
  \/ Advance

Spec == Init /\ [][Next]_vars

\* ------------------------------------- the resolver on drawn inputs

\* a roster entry as addBall builds it (lines 44-51), with the given fields
BallData(id, pos, vel, size, dragging, lct) ==
  [id |-> id, position |-> pos, velocity |-> vel, isAnimating |-> TRUE,
   isDragging |-> dragging, size |-> size, lastCollisionTime |-> lct]

DrawnSizes == {Px(50), Px(80), Px(120)}
\* the partner's centre relative to the acting ball's centre
DrawnOffsets == {Vec(0, 0), Vec(Px(79), 0), Vec(Px(80), 0), Vec(Px(81), 0),
                 Vec(-Px(60), 0), Vec(Px(30), Px(40)), Vec(0, -Px(70)),
                 Vec(-Px(48), Px(36))}
DrawnActingVel == {ZeroVec, Vec(Px(3), 0), Vec(-Px(3), 0), Vec(0, Px(3)),
                   Vec(Px(2), -Px(1))}
DrawnOtherVel == {ZeroVec, Vec(-Px(3), 0), Vec(Px(1), Px(2))}
DrawnLastCollision == {0, StartTime - 51, StartTime - 50, StartTime - 16, StartTime}
\* a third ball of the roster, or none
DrawnThird == {<<>>,
               <<BallData(3, Vec(Px(240), Px(300)), ZeroVec, Px(80), FALSE, 0)>>,
               <<BallData(3, Vec(Px(300), Px(350)), Vec(0, -Px(2)), Px(80), FALSE, 0)>>}
ActingAt == Vec(Px(300), Px(300))

DrawnRoster(sizeA, sizeB, off, velB, dragging, lct, third) ==
  <<BallData(1, ActingAt, ZeroVec, sizeA, FALSE, 0),
    BallData(2, Vec(ActingAt.x + RDiv(sizeA, 2) - RDiv(sizeB, 2) + off.x,
                    ActingAt.y + RDiv(sizeA, 2) - RDiv(sizeB, 2) + off.y),
             velB, sizeB, dragging, lct)>> \o third

InitResolver ==
  /\ \E sizeA \in DrawnSizes, sizeB \in DrawnSizes, off \in DrawnOffsets,
        velB \in DrawnOtherVel, dragging \in BOOLEAN,
        lct \in DrawnLastCollision, third \in DrawnThird :
       balls = DrawnRoster(sizeA, sizeB, off, velB, dragging, lct, third)
  /\ \E velA \in DrawnActingVel :
       call = [id |-> 1, position |-> ActingAt, velocity |-> velA, done |-> FALSE]
  /\ result = NoResult
  /\ nextId = 4
  /\ now = StartTime
  /\ containerEl = [width |-> Px(800), height |-> Px(600)]
  /\ Unmounted
  /\ last = Op("init", 0)
  /\ steps = 0

\* a direct call of checkCollisions(call.id, call.position, call.velocity, balls)
Check ==
  /\ ~call.done
  /\ result' = checkCollisions(call.id, call.position, call.velocity, balls, now)
  /\ call' = [call EXCEPT !.done = TRUE]
  /\ UNCHANGED <<storeVars, now, containerEl, ballVars, last, steps>>

NextResolver == Check

SpecResolver == InitResolver /\ [][NextResolver]_vars

\* --------------------------------------- properties of the resolver

\* what the properties below read off a roster entry and the call, written
\* from the definitions of the data model rather than from the resolver
CentreX(pos, size) == pos.x + RDiv(size, 2)
CentreY(pos, size) == pos.y + RDiv(size, 2)
\* squared centre distance between the acting ball at pos and ball b
CentreDistSq(pos, size, b) ==
  LET ddx == CentreX(pos, size) - CentreX(b.position, b.size)
      ddy == CentreY(pos, size) - CentreY(b.position, b.size)
  IN  ddx * ddx + ddy * ddy
MinDistSq(size, b) == RDiv(size + b.size, 2) * RDiv(size + b.size, 2)
Touching(pos, size, b) ==
  0 < CentreDistSq(pos, size, b) /\ CentreDistSq(pos, size, b) < MinDistSq(size, b)
\* (velA - velB) . (centreA - centreB): negative when the two approach
ClosingDot(pos, vel, size, b) ==
  (vel.x - b.velocity.x) * ((CentreX(pos, size) - CentreX(b.position, b.size)) \div Unit)
  + (vel.y - b.velocity.y) * ((CentreY(pos, size) - CentreY(b.position, b.size)) \div Unit)
InCooldown(b) ==
  b.lastCollisionTime # 0 /\ now - b.lastCollisionTime >= 0
    /\ now - b.lastCollisionTime <= 50
Eligible(b) == ~b.isDragging /\ ~InCooldown(b)
\* mass = (size / 80)^2, as a coefficient
SquareMass(size) == RDiv((size \div Unit) * (size \div Unit) * Coef, 6400)
Without(roster, id) == SelectSeq(roster, LAMBDA b : b.id # id)
UpdatesFor(res, id) == SelectSeq(res.otherBallUpdates, LAMBDA u : u.id = id)
Pair == call.done /\ Len(balls) = 2

\* C5 as claimed: collided is TRUE exactly when an overlap was resolved (an
\* impulse applied and a deferred update queued), and with nothing resolved
\* the returned velocity and position are the tentative inputs.
C5_CollidedIffResolved ==
  call.done =>
    /\ result.collided <=> (result.otherBallUpdates # <<>>)
    /\ result.otherBallUpdates = <<>> =>
         (result.velocity = call.velocity /\ result.position = call.position)

\* C5 amended: collided is TRUE exactly when some eligible candidate overlaps
\* the acting ball's tentative position (0 < distance < minDistance), resolved
\* or not; a queued deferred update implies collided; with nothing queued the
\* returned velocity and position are the tentative inputs.
C5_CollidedIffOverlap ==
  call.done =>
    /\ result.collided <=>
         \E i \in 1..Len(balls) :
           /\ balls[i].id # call.id
           /\ Eligible(balls[i])
           /\ Touching(call.position, balls[1].size, balls[i])
    /\ result.otherBallUpdates # <<>> => result.collided
    /\ result.otherBallUpdates = <<>> =>
         (result.velocity = call.velocity /\ result.position = call.position)

\* an overlapping but separating candidate: collided without any update
C5_Witness ==
  /\ Pair /\ Eligible(balls[2])
  /\ Touching(call.position, balls[1].size, balls[2])
  /\ result.collided /\ result.otherBallUpdates = <<>>

\* C6: for an eligible candidate that is not separating from the acting ball,
\* a deferred update is produced if and only if 0 < distance < (sizeA+sizeB)/2,
\* the distance taken between the centres.
C6_UpdateIffOverlap ==
  (/\ Pair /\ Eligible(balls[2])
   /\ ClosingDot(call.position, call.velocity, balls[1].size, balls[2]) <= 0)
  => ((UpdatesFor(result, 2) # <<>>)
        <=> Touching(call.position, balls[1].size, balls[2]))

\* two size-80 balls 79 px apart, approaching: a deferred update is produced
C6_Witness ==
  /\ Pair /\ Eligible(balls[2])
  /\ balls[1].size = Px(80) /\ balls[2].size = Px(80)
  /\ CentreDistSq(call.position, balls[1].size, balls[2]) = Px(79) * Px(79)
  /\ ClosingDot(call.position, call.velocity, balls[1].size, balls[2]) < 0
  /\ UpdatesFor(result, 2) # <<>>

\* C7: a ball whose lastCollisionTime lies within the 50 ms before the check is
\* no candidate: the check queues no update for it and returns what it returns
\* for the roster without that ball.
C7_CooldownExcluded ==
  (call.done /\ InCooldown(balls[2]))
  => /\ UpdatesFor(result, 2) = <<>>
     /\ result = checkCollisions(call.id, call.position, call.velocity,
                                 Without(balls, 2), now)

\* a ball hit exactly 50 ms ago that overlaps the approaching acting ball
C7_Witness ==
  /\ call.done /\ ~balls[2].isDragging
  /\ balls[2].lastCollisionTime = now - 50
  /\ Touching(call.position, balls[1].size, balls[2])
  /\ ClosingDot(call.position, call.velocity, balls[1].size, balls[2]) < 0
  /\ UpdatesFor(result, 2) = <<>>

\* C8: for a resolved pair the momentum changes are equal and opposite on both
\* axes, mass1 * dvA = - mass2 * dvB with mass = (size/80)^2, to within the
\* rounding of the fixed-point products (2 units of 0.01 px per tick).
C8_MomentumBalance ==
  (Pair /\ UpdatesFor(result, 2) # <<>>)
  => LET u == UpdatesFor(result, 2)[1]
         m1 == SquareMass(balls[1].size)
         m2 == SquareMass(balls[2].size)
     IN  /\ Abs(Scale(result.velocity.x - call.velocity.x, m1)
                + Scale(u.velocity.x - balls[2].velocity.x, m2)) <= 2
         /\ Abs(Scale(result.velocity.y - call.velocity.y, m1)
                + Scale(u.velocity.y - balls[2].velocity.y, m2)) <= 2

\* a resolved pair of unequal masses with a non-zero impulse
C8_Witness ==
  /\ Pair /\ UpdatesFor(result, 2) # <<>>
  /\ balls[1].size = Px(50) /\ balls[2].size = Px(120)
  /\ result.velocity # call.velocity

\* C9 as claimed: two size-80 balls meeting head-on with velocities (u, 0) and
\* (-u, 0) leave with the normal velocities reversed and scaled by 0.7.
C9_HeadOnRestitution ==
  (/\ Pair /\ Eligible(balls[2])
   /\ balls[1].size = Px(80) /\ balls[2].size = Px(80)
   /\ Touching(call.position, balls[1].size, balls[2])
   /\ balls[2].position.y = call.position.y
   /\ balls[2].position.x > call.position.x
   /\ call.velocity.x > 0 /\ call.velocity.y = 0
   /\ balls[2].velocity = Vec(-call.velocity.x, 0))
  => /\ result.velocity = Vec(-Scale(call.velocity.x, restitution), 0)
     /\ UpdatesFor(result, 2) # <<>>
     /\ UpdatesFor(result, 2)[1].velocity = Vec(Scale(call.velocity.x, restitution), 0)

\* ------------------------------------------- the single dropped ball

\* one size-80 ball mounted at (100, 0) in an 800 x 600 container, at rest
InitDrop ==
  /\ balls = <<newBall(1, Px(100), 0, Px(80))>>
  /\ nextId = 2
  /\ now = StartTime
  /\ containerEl = [width |-> Px(800), height |-> Px(600)]
  /\ position = [i \in Ids |-> IF i = 1 THEN Vec(Px(100), 0) ELSE ZeroVec]
  /\ velocity = [i \in Ids |-> ZeroVec]
  /\ isAnimating = [i \in Ids |-> i = 1]
  /\ isDragging = [i \in Ids |-> FALSE]
  /\ containerBounds = [i \in Ids |-> IF i = 1 THEN containerEl
                                      ELSE [width |-> 0, height |-> 0]]
  /\ dragBounds = [i \in Ids |-> [width |-> 0, height |-> 0]]
  /\ dragOffsetRef = [i \in Ids |-> ZeroVec]
  /\ lastMousePosRef = [i \in Ids |-> ZeroVec]
  /\ dragVelocityRef = [i \in Ids |-> ZeroVec]
  /\ safetyTimeoutAt = [i \in Ids |-> 0]
  /\ posShared = [i \in Ids |-> FALSE]
  /\ velShared = [i \in Ids |-> FALSE]
  /\ last = Op("init", 0)
  /\ steps = 0
  /\ call = NoCall
  /\ result = NoResult

\* the interval of line 252 fires
TimerFires(id) == animate(id) /\ UNCHANGED steps
\* the effect of lines 165-171 runs
EffectRuns(id) == ensureAnimating(id) /\ UNCHANGED steps

NextDrop ==
  \/ \E id \in Ids : TimerFires(id)
  \/ \E id \in Ids : EffectRuns(id)

\* lines 252-254: the interval exists while the ball animates and is not
\* dragged, which is when TimerFires(id) is enabled
Running(id) == Mounted(id) /\ isAnimating[id] /\ ~isDragging[id]

\* WF_vars(TimerFires(id)), with ENABLED <<TimerFires(id)>>_vars written out
\* as Running(id): an interval that stays set keeps firing
TimerFair(id) == []<>(~Running(id)) \/ []<><<TimerFires(id)>>_vars

\* the timer keeps firing and a pending effect runs
SpecDrop ==
  /\ InitDrop /\ [][NextDrop]_vars
  /\ \A id \in Ids : TimerFair(id) /\ WF_vars(EffectRuns(id))

\* ----------------------------------- properties of the dropped ball

Settled == position[1] = Vec(Px(100), Px(520)) /\ velocity[1] = ZeroVec

\* C10: the dropped ball eventually lies at y = 520 with velocity (0, 0) and
\* has that position and velocity ever after, through every later tick.
C10_DropSettles == <>[]Settled

\* a tick run after the ball came to rest and was set animating again: it
\* leaves the ball where it rests
C10_Witness ==
  /\ Settled
  /\ last.op = "tick"
  /\ last.tentative.position = Vec(Px(100), Px(520) + gravity(Px(80)))

\* ------------------------------------- one ball in flight, any start

\* what a lone ball's integrator can hold when a tick starts: a position and
\* a velocity left by earlier ticks or a throw, in a container that may have
\* been resized since
FlightSizes == {Px(80), Px(120)}
FlightContainers == {[width |-> Px(800), height |-> Px(600)],
                     [width |-> Px(300), height |-> Px(120)],
                     [width |-> Px(100), height |-> Px(100)]}
FlightHeights == {0, Px(400), Px(518)}
FlightVelocities == {ZeroVec, Vec(0, Px(5)), Vec(Px(2), Px(5)), Vec(Px(2), 0),
                     Vec(-(Px(1) \div 2), Px(1)), Vec(0, -Px(4))}

InitFlight ==
  \E size \in FlightSizes, c \in FlightContainers,
     y \in FlightHeights, v \in FlightVelocities :
    /\ balls = <<[newBall(1, Px(100), y, size) EXCEPT !.velocity = v]>>
    /\ nextId = 2
    /\ now = StartTime
    /\ containerEl = c
    /\ position = [i \in Ids |-> IF i = 1 THEN Vec(Px(100), y) ELSE ZeroVec]
    /\ velocity = [i \in Ids |-> IF i = 1 THEN v ELSE ZeroVec]
    /\ isAnimating = [i \in Ids |-> i = 1]
    /\ isDragging = [i \in Ids |-> FALSE]
    /\ containerBounds = [i \in Ids |-> IF i = 1 THEN c
                                        ELSE [width |-> 0, height |-> 0]]
    /\ dragBounds = [i \in Ids |-> [width |-> 0, height |-> 0]]
    /\ dragOffsetRef = [i \in Ids |-> ZeroVec]
    /\ lastMousePosRef = [i \in Ids |-> ZeroVec]
    /\ dragVelocityRef = [i \in Ids |-> ZeroVec]
    /\ safetyTimeoutAt = [i \in Ids |-> 0]
    /\ posShared = [i \in Ids |-> FALSE]
    /\ velShared = [i \in Ids |-> FALSE]
    /\ last = Op("init", 0)
    /\ steps = 0
    /\ call = NoCall
    /\ result = NoResult

FlightTick(id) == animate(id) /\ UNCHANGED steps

NextFlight == \E id \in Ids : FlightTick(id)

SpecFlight == InitFlight /\ [][NextFlight]_vars

\* ---------------------------------- properties of the ball in flight

\* the velocity x with which a tick reaches its floor test: the provisional
\* one, reflected if the provisional x was at a side wall
AtFloorVelX ==
  LET p == last.tentative.position
      v == last.tentative.velocity
      size == StoreBall(last.id).size
  IN  IF p.x <= 0 \/ p.x >= last.bounds.width - size
      THEN -Scale(v.x, bounce(size)) ELSE v.x
\* the velocity y the floor gives back
AtFloorVelY ==
  LET r == -Scale(last.tentative.velocity.y, bounce(StoreBall(last.id).size))
  IN  IF Abs(r) < Px(3) THEN 0 ELSE r
FloorContact ==
  /\ last.op = "tick" /\ Mounted(last.id) /\ ~last.consulted
  /\ last.tentative.position.y >= last.bounds.height - StoreBall(last.id).size
FloorOutcome ==
  /\ position[last.id].y = last.bounds.height - StoreBall(last.id).size
  /\ IF AtFloorVelY = 0 /\ Abs(AtFloorVelX) < Px(1)
     THEN velocity[last.id] = ZeroVec /\ ~isAnimating[last.id]
     ELSE velocity[last.id] = Vec(AtFloorVelX, AtFloorVelY) /\ isAnimating[last.id]

SizeOf(id) == StoreBall(id).size
InContainer(p, size, c) ==
  /\ 0 <= p.x /\ p.x <= c.width - size
  /\ 0 <= p.y /\ p.y <= c.height - size
Ticked == last.op = "tick" /\ Mounted(last.id)

\* C1 as claimed: while ball b is being dragged, a tick of another ball queues
\* no deferred update for b, and its check returns the velocity and position
\* it returns for the roster without b.
C1_DraggedNeverCandidate ==
  Ticked =>
    \A b \in last.dragging :
      /\ b \notin UpdateIds(last.check.otherBallUpdates)
      /\ LET free == checkCollisions(last.id, last.tentative.position,
                                     last.tentative.velocity,
                                     Without(last.roster, b), now)
         IN  last.consulted =>
               /\ last.check.velocity = free.velocity
               /\ last.check.position = free.position

\* C2 as claimed: after every tick the ball lies within the container,
\* 0 <= x <= W - size and 0 <= y <= H - size, whatever W and H are.
C2_TickInBoundsAnyContainer ==
  Ticked => InContainer(position[last.id], SizeOf(last.id), containerEl)

\* C2 amended: after every tick, on an axis where the container is at least
\* as large as the ball the coordinate lies in [0, dimension - size]; on an
\* axis where the container is smaller than the ball the coordinate is 0.
C2_TickInBounds ==
  Ticked =>
    LET p == position[last.id]
        size == SizeOf(last.id)
    IN  /\ containerEl.width >= size => (0 <= p.x /\ p.x <= containerEl.width - size)
        /\ containerEl.width < size => p.x = 0
        /\ containerEl.height >= size => (0 <= p.y /\ p.y <= containerEl.height - size)
        /\ containerEl.height < size => p.y = 0

\* a tick after a resize that left the ball beyond the right edge of a
\* container wide enough for it: the tick brings it back to the edge
C2_Witness ==
  /\ Ticked
  /\ containerEl # [width |-> Px(800), height |-> Px(600)]
  /\ containerEl.width >= SizeOf(last.id)
  /\ last.tentative.position.x > containerEl.width - SizeOf(last.id)
  /\ position[last.id].x = containerEl.width - SizeOf(last.id)

\* C3 as claimed: every position the roster holds after an add, a report or a
\* deferred collision update lies within [0, containerSize - ballSize].
C3_RosterInBounds ==
  last.op \in {"add", "tick", "mouseUp", "doubleClick"} =>
    \A i \in 1..Len(balls) :
      InContainer(balls[i].position, balls[i].size, containerEl)

\* C4 as claimed: an update whose supplied fields all have the values the
\* ball already has writes nothing.
C4_RedundantUpdateSkipped == last.redundant \cap last.wrote = {}

\* 0.75 * (1 + mass * 0.2), mass = (size / 80)^2
ReleaseScale(size) ==
  Scale((75 * Coef) \div 100, Coef + Scale(MassOf(size), (2 * Coef) \div 10))
\* 0.5 * old + 0.5 * delta
Smoothed(old, delta) == Scale(old, Coef \div 2) + Scale(delta, Coef \div 2)

\* C12: a pointer-down resets the ball's drag-velocity accumulator to (0,0);
\* every pointer-move of the drag makes it 0.5 * old + 0.5 * pointer delta and
\* nothing else changes it while the ball is dragged; the pointer-up that ends
\* the drag sets the velocity to the accumulator times 0.75 * (1 + mass * 0.2)
\* and leaves the ball animating and not dragging.
C12_ReleaseVelocity ==
  [][/\ last'.op = "mouseDown" => dragVelocityRef'[last'.id] = ZeroVec
     /\ \A i \in Ids :
          isDragging[i] =>
            /\ last'.op = "mouseMove" =>
                 dragVelocityRef'[i] =
                   Vec(Smoothed(dragVelocityRef[i].x,
                                lastMousePosRef'[i].x - lastMousePosRef[i].x),
                       Smoothed(dragVelocityRef[i].y,
                                lastMousePosRef'[i].y - lastMousePosRef[i].y))
            /\ last'.op = "mouseUp" =>
                 /\ velocity'[i] =
                      Vec(Scale(dragVelocityRef[i].x, ReleaseScale(SizeOf(i))),
                          Scale(dragVelocityRef[i].y, ReleaseScale(SizeOf(i))))
                 /\ isAnimating'[i] /\ ~isDragging'[i]
            /\ last'.op \notin {"mouseMove", "mouseDown", "remove", "clear"} =>
                 dragVelocityRef'[i] = dragVelocityRef[i]]_vars

\* a size-120 ball released after two pointer moves to the right
C12_Witness ==
  /\ last.op = "mouseUp"
  /\ \E i \in Ids :
       /\ Mounted(i) /\ SizeOf(i) = Px(120)
       /\ dragVelocityRef[i].x > Px(15)
       /\ velocity[i].x > dragVelocityRef[i].x
       /\ isAnimating[i] /\ ~isDragging[i]

\* the roster after a step holds the ids it held, in the same places; or
\* those and one new id at the end; or some of them, in the same order
SameIds == Order(balls') = Order(balls)
OneMoreId ==
  /\ Len(balls') = Len(balls) + 1
  /\ SubSeq(Order(balls'), 1, Len(balls)) = Order(balls)
  /\ balls'[Len(balls')].id \notin RosterIds(balls)
FewerIds ==
  Order(balls') = SelectSeq(Order(balls), LAMBDA i : i \in RosterIds(balls'))

\* C13: no two balls of the roster have the same id, and no step changes the
\* id of a ball that stays in the roster (ids generated by addBall taken to
\* be fresh).
C13_UniqueStableIds ==
  /\ [](\A i, j \in 1..Len(balls) : balls[i].id = balls[j].id => i = j)
  /\ [][SameIds \/ OneMoreId \/ FewerIds]_vars

\* a roster of two after a deferred collision update was merged into it
C13_Witness ==
  /\ Ticked /\ Len(balls) = 2
  /\ last.check.otherBallUpdates # <<>>
  /\ balls[1].id # balls[2].id

\* ----------------------------------------- updateBall on drawn inputs

UpdateBallA == BallData(1, Vec(Px(100), Px(200)), Vec(Px(1), Px(2)), Px(80), FALSE, 0)
UpdateBallB ==
  BallData(2, Vec(Px(300), Px(520)), ZeroVec, Px(120), FALSE, StartTime - tickMs)
UpdateRosters == {<<>>, <<UpdateBallA>>, <<UpdateBallA, UpdateBallB>>,
                  <<UpdateBallB, UpdateBallA>>}
\* 1 and 2 are in the drawn rosters, 3 is in none
UpdateTargets == {1, 2, 3}
\* what a Ball reports (lines 284-290), and smaller sets of fields
DrawnUpdates ==
  {ReportOf(Vec(Px(100), Px(200)), Vec(Px(1), Px(2)), TRUE, FALSE, Px(80)),
   ReportOf(Vec(Px(100), Px(203)), Vec(Px(1), Px(3)), TRUE, FALSE, Px(80)),
   ReportOf(Vec(Px(300), Px(520)), ZeroVec, FALSE, FALSE, Px(120)),
   [position |-> Vec(Px(120), Px(200))],
   [isAnimating |-> FALSE, isDragging |-> TRUE]}

\* the supplied object can be the stored one only if it has its value
CanShare(roster, id, updates, key, shared) ==
  shared =>
    /\ FindBall(roster, id) # 0
    /\ key \in DOMAIN updates
    /\ roster[FindBall(roster, id)][key] = updates[key]

InitUpdate ==
  /\ balls \in UpdateRosters
  /\ \E id \in UpdateTargets, updates \in DrawnUpdates,
        samePos \in BOOLEAN, sameVel \in BOOLEAN :
       /\ CanShare(balls, id, updates, "position", samePos)
       /\ CanShare(balls, id, updates, "velocity", sameVel)
       /\ call = [id |-> id, updates |-> updates, samePos |-> samePos,
                  sameVel |-> sameVel, done |-> FALSE]
  /\ result = [prev |-> balls, wrote |-> FALSE]
  /\ nextId = 4
  /\ now = StartTime
  /\ containerEl = [width |-> Px(800), height |-> Px(600)]
  /\ Unmounted
  /\ last = Op("init", 0)
  /\ steps = 0

\* a direct call of updateBall(call.id, call.updates)
Update ==
  /\ ~call.done
  /\ \E u \in {updateBall(balls, call.id, call.updates, call.samePos, call.sameVel)} :
       /\ balls' = u.balls
       /\ result' = [prev |-> balls, wrote |-> u.wrote]
  /\ call' = [call EXCEPT !.done = TRUE]
  /\ UNCHANGED <<nextId, now, containerEl, ballVars, last, steps>>

NextUpdate == Update

SpecUpdate == InitUpdate /\ [][NextUpdate]_vars

\* ------------------------------------------ properties of updateBall

\* C14: update(id, fields) leaves the roster's length and order, every other
\* ball and every field not supplied as they were, gives the ball with that
\* id the supplied fields, and leaves the roster unchanged when id is absent.
C14_UpdateFrame ==
  call.done =>
    /\ Len(balls) = Len(result.prev)
    /\ \A k \in 1..Len(result.prev) :
         IF result.prev[k].id = call.id
         THEN \A f \in DOMAIN result.prev[k] :
                balls[k][f] = IF f \in DOMAIN call.updates
                              THEN call.updates[f] ELSE result.prev[k][f]
         ELSE balls[k] = result.prev[k]
    /\ (\A k \in 1..Len(result.prev) : result.prev[k].id # call.id)
         => balls = result.prev

\* a report of position and velocity merged into a ball that was hit before,
\* next to another ball
C14_Witness ==
  /\ call.done /\ result.wrote /\ call.id = 2 /\ Len(balls) = 2
  /\ "position" \in DOMAIN call.updates
  /\ balls # result.prev
  /\ \E k \in 1..2 : balls[k].id = 2 /\ balls[k].lastCollisionTime # 0

\* ------------------------------------ the Store under any caller

\* the operations useBalls returns, called in any order with arguments that
\* may come from an older roster: reports and collision batches for any id
\* handed out so far, present or removed
IssuedIds == 1..(nextId - 1)
StaleReports ==
  {ReportOf(Vec(Px(100), Px(203)), Vec(Px(1), Px(3)), TRUE, FALSE, Px(80)),
   ReportOf(Vec(Px(300), Px(520)), ZeroVec, FALSE, FALSE, Px(80))}
CollisionUpdateFor(id) ==
  [id |-> id, velocity |-> Vec(Px(2), -Px(1)), position |-> Vec(Px(140), Px(180)),
   isAnimating |-> TRUE, lastCollisionTime |-> now]
StaleBatches ==
  {<<CollisionUpdateFor(i)>> : i \in IssuedIds}
    \cup {<<CollisionUpdateFor(i), CollisionUpdateFor(j)>> : i, j \in IssuedIds}

InitStore ==
  /\ balls = <<>>
  /\ nextId = 1
  /\ now = StartTime
  /\ containerEl = [width |-> Px(800), height |-> Px(600)]
  /\ Unmounted
  /\ last = Op("init", 0)
  /\ steps = 0
  /\ call = NoCall
  /\ result = NoResult

StoreFrame == UNCHANGED <<now, containerEl, ballVars, steps, callVars>>

StoreAdd(x, y, size) ==
  /\ nextId <= MaxBalls
  /\ balls' = addBall(balls, nextId, x, y, size)
  /\ nextId' = nextId + 1
  /\ last' = Op("add", nextId)
  /\ StoreFrame

StoreRemove(id) ==
  /\ balls' = removeBall(balls, id)
  /\ last' = Op("remove", id)
  /\ UNCHANGED nextId /\ StoreFrame

\* BallManager's Clear All, on the roster it rendered
StoreClear ==
  /\ balls' = RemoveEach(balls, balls, 1)
  /\ last' = Op("clear", 0)
  /\ UNCHANGED nextId /\ StoreFrame

StoreClearAll ==
  /\ balls' = clearAllBalls
  /\ last' = Op("clear", 0)
  /\ UNCHANGED nextId /\ StoreFrame

StoreUpdate(id, updates) ==
  /\ balls' = updateBall(balls, id, updates, FALSE, FALSE).balls
  /\ last' = [Op("update", id) EXCEPT !.reported = {id}]
  /\ UNCHANGED nextId /\ StoreFrame

StoreApply(batch) ==
  /\ balls' = applyCollisionUpdates(balls, batch)
  /\ last' = [Op("apply", 0) EXCEPT !.reported = UpdateIds(batch)]
  /\ UNCHANGED nextId /\ StoreFrame

NextStore ==
  \/ \E p \in AddPositions, size \in AddSizes : StoreAdd(p.x, p.y, size)
  \/ \E id \in IssuedIds : StoreRemove(id)
  \/ StoreClear
  \/ StoreClearAll
  \/ \E id \in IssuedIds, updates \in StaleReports : StoreUpdate(id, updates)
  \/ \E batch \in StaleBatches : StoreApply(batch)

SpecStore == InitStore /\ [][NextStore]_vars

\* ------------------------------------------- properties of the Store

\* C15: an id that left the roster is in no later roster, whatever reports
\* and collision batches arrive for it: every id of the roster has been
\* handed out, the only id a step can bring into the roster is the one
\* addBall hands out next, and only an add does so; after Clear All the
\* roster is empty.
C15_RemovedStaysRemoved ==
  /\ [](RosterIds(balls) \subseteq IssuedIds)
  /\ [](last.op = "clear" => balls = <<>>)
  /\ [][/\ RosterIds(balls') \ RosterIds(balls) \subseteq {nextId}
        /\ nextId' >= nextId
        /\ RosterIds(balls') \ RosterIds(balls) # {} =>
             (last'.op = "add" /\ nextId' = nextId + 1)]_vars

\* a report or a collision batch for a removed ball arrived at a roster that
\* still holds another ball
C15_Witness ==
  /\ last.op \in {"update", "apply"}
  /\ balls # <<>>
  /\ \E i \in last.reported : i \notin RosterIds(balls)

\* ----------------------------- properties of the system, continued

\* C16 as claimed: once a tick of ball A has delivered a collision update for
\* ball B to the Store, B's integrator holds the delivered position and
\* velocity, so that its next tick starts from them.
C16_DeliveredUpdateTaken ==
  (Ticked /\ last.check.collided) =>
    \A b \in UpdateIds(last.check.otherBallUpdates) :
      Mounted(b) =>
        /\ position[b] = StoreBall(b).position
        /\ velocity[b] = StoreBall(b).velocity

\* C17 as claimed: after a tick of a ball that is not dragged, whatever the
\* roster's size, the Store's entry for the ball has the position and the
\* velocity its integrator has.
C17_StoreFollowsIntegrator ==
  (Ticked /\ ~isDragging[last.id]) =>
    /\ StoreBall(last.id).position = position[last.id]
    /\ StoreBall(last.id).velocity = velocity[last.id]

\* ------------------------------------------- two balls in flight

\* two mounted balls as earlier ticks and reports can leave them: ball 1
\* moving towards ball 2 on one horizontal line, close to it or overlapping
\* it, the Store holding what each integrator holds
PairVelocities == {ZeroVec, Vec(Px(3), 0), Vec(Px(6), 0)}
PairOtherVelocities == {ZeroVec, Vec(-Px(3), 0)}
PairGaps == {Px(70), Px(78), Px(90)}
PairAt == Vec(Px(100), Px(300))

InitPair ==
  \E velA \in PairVelocities, velB \in PairOtherVelocities, gap \in PairGaps :
    /\ balls = <<BallData(1, PairAt, velA, Px(80), FALSE, 0),
                 BallData(2, Vec(PairAt.x + gap, PairAt.y), velB, Px(80), FALSE, 0)>>
    /\ nextId = 3
    /\ now = StartTime
    /\ containerEl = [width |-> Px(800), height |-> Px(600)]
    /\ position = [i \in Ids |-> IF i = 1 THEN PairAt
                                 ELSE IF i = 2 THEN Vec(PairAt.x + gap, PairAt.y)
                                 ELSE ZeroVec]
    /\ velocity = [i \in Ids |-> IF i = 1 THEN velA ELSE IF i = 2 THEN velB ELSE ZeroVec]
    /\ isAnimating = [i \in Ids |-> i \in {1, 2}]
    /\ isDragging = [i \in Ids |-> FALSE]
    /\ containerBounds = [i \in Ids |-> IF i \in {1, 2} THEN containerEl
                                        ELSE [width |-> 0, height |-> 0]]
    /\ dragBounds = [i \in Ids |-> [width |-> 0, height |-> 0]]
    /\ dragOffsetRef = [i \in Ids |-> ZeroVec]
    /\ lastMousePosRef = [i \in Ids |-> ZeroVec]
    /\ dragVelocityRef = [i \in Ids |-> ZeroVec]
    /\ safetyTimeoutAt = [i \in Ids |-> 0]
    /\ posShared = [i \in Ids |-> i \in {1, 2}]
    /\ velShared = [i \in Ids |-> i \in {1, 2}]
    /\ last = Op("init", 0)
    /\ steps = 0
    /\ call = NoCall
    /\ result = NoResult

\* the two intervals fire in any order as the clock moves on
NextPair ==
  \/ \E id \in Ids : Tick(id)
  \/ Advance

SpecPair == InitPair /\ [][NextPair]_vars

\* ---------------------------------- properties of the pair in flight

\* the roster entry a tick found for ball id
FoundBy(id) == last.roster[FindBall(last.roster, id)]
\* ball id was hit less than 50 ms before this tick
HitRecently(id) ==
  /\ FoundBy(id).lastCollisionTime # 0
  /\ now - FoundBy(id).lastCollisionTime >= 0
  /\ now - FoundBy(id).lastCollisionTime < 50

\* C18 as claimed: in a roster of two, once one ball has resolved a collision
\* against the other at time t, no tick of either ball run before t + 50 ms
\* resolves a collision between the two again.
C18_NoSecondImpulse ==
  (Ticked /\ Len(last.roster) = 2
     /\ \E b \in RosterIds(last.roster) : HitRecently(b))
  => last.check.otherBallUpdates = <<>>

\* ------------------------ properties of the dropped ball, continued

\* the dropped ball has settled: not animating, at rest
Idle == ~isAnimating[1] /\ velocity[1] = ZeroVec

\* C19 as claimed: once the ball has settled (isAnimating false, velocity
\* (0,0)), with no pointer input and no collision update it is not animating
\* and is where it settled in every later state.
C19_SettledStaysIdle ==
  \A p \in {Vec(Px(100), Px(520))} :
    []((Idle /\ position[1] = p) => [](~isAnimating[1] /\ position[1] = p))

\* ------------------------------------------------ drags and the safety timeout

\* how far the clock runs in this specification, from StartTime, in ms
DragHorizon == 30000

\* two balls at rest on the floor of an 800x600 container, apart
DragAt(id) == Vec(Px(100) + (id - 1) * Px(300), Px(520))

InitDrag ==
  /\ balls = <<BallData(1, DragAt(1), ZeroVec, Px(80), FALSE, 0),
               BallData(2, DragAt(2), ZeroVec, Px(80), FALSE, 0)>>
  /\ nextId = 3
  /\ now = StartTime
  /\ containerEl = [width |-> Px(800), height |-> Px(600)]
  /\ position = [i \in Ids |-> IF i \in {1, 2} THEN DragAt(i) ELSE ZeroVec]
  /\ velocity = [i \in Ids |-> ZeroVec]
  /\ isAnimating = [i \in Ids |-> i \in {1, 2}]
  /\ isDragging = [i \in Ids |-> FALSE]
  /\ containerBounds = [i \in Ids |-> IF i \in {1, 2} THEN containerEl
                                      ELSE [width |-> 0, height |-> 0]]
  /\ dragBounds = [i \in Ids |-> [width |-> 0, height |-> 0]]
  /\ dragOffsetRef = [i \in Ids |-> ZeroVec]
  /\ lastMousePosRef = [i \in Ids |-> ZeroVec]
  /\ dragVelocityRef = [i \in Ids |-> ZeroVec]
  /\ safetyTimeoutAt = [i \in Ids |-> 0]
  /\ posShared = [i \in Ids |-> i \in {1, 2}]
  /\ velShared = [i \in Ids |-> i \in {1, 2}]
  /\ last = Op("init", 0)
  /\ steps = 0
  /\ call = NoCall
  /\ result = NoResult

\* a pointer-down on ball id; a drag starts only while its timeout is due
\* within the horizon
DragDown(id) ==
  /\ isDragging[id] \/ now + safetyMs <= StartTime + DragHorizon
  /\ handleMouseDown(id, Grab(id))
  /\ UNCHANGED steps
\* the pointer-up arrives
DragUp == handleMouseUp /\ UNCHANGED steps
\* a double-click on ball id arrives
DragDoubleClick(id) == handleDoubleClick(id) /\ UNCHANGED steps
\* the timer of line 260 fires
DragTimeout(id) == safetyTimeout(id) /\ UNCHANGED steps
\* half the delay of the timeout passes; a timer that is due fires before the
\* clock moves past it
DragWait ==
  /\ now + safetyMs \div 2 <= StartTime + DragHorizon
  /\ \A i \in Ids : safetyTimeoutAt[i] # 0 => now + safetyMs \div 2 <= safetyTimeoutAt[i]
  /\ now' = now + safetyMs \div 2
  /\ last' = Op("advance", 0)
  /\ UNCHANGED <<storeVars, containerEl, ballVars, steps, callVars>>

NextDrag ==
  \/ \E id \in Ids : DragDown(id)
  \/ DragUp
  \/ \E id \in Ids : DragDoubleClick(id)
  \/ \E id \in Ids : DragTimeout(id)
  \/ DragWait

\* pointer input arrives or not; the clock moves on and a due timer fires
SpecDrag ==
  /\ InitDrag
  /\ [][NextDrag]_vars
  /\ WF_vars(DragWait)
  /\ \A id \in Ids : WF_vars(DragTimeout(id))

\* ball id enters Dragging in this step
EntersDragging(id) == ~isDragging[id] /\ isDragging'[id]
\* ball id leaves Dragging in this step
LeavesDragging(id) == isDragging[id] /\ ~isDragging'[id]
\* this step is the safety timeout of ball id
TimeoutOf(id) == last' # last /\ last'.op = "safetyTimeout" /\ last'.id = id

\* C20: a ball that enters Dragging always leaves it. The pointer-down that
\* enters Dragging sets the timeout 10 seconds ahead and the drag keeps that
\* timeout to its end; a ball leaves Dragging by a pointer-up, a double-click
\* or its timeout only; the timeout of a ball ends its drag not before that
\* drag's own 10 seconds are over, leaving the ball not dragged and animating;
\* a ball that is not dragged has no timeout pending.
C20_DragAlwaysEnds ==
  /\ \A id \in {1, 2} : isDragging[id] ~> ~isDragging[id]
  /\ [](\A id \in Ids : ~isDragging[id] => safetyTimeoutAt[id] = 0)
  /\ [][\A id \in Ids :
          /\ EntersDragging(id) => safetyTimeoutAt'[id] = now + 10000
          /\ (isDragging[id] /\ isDragging'[id])
               => safetyTimeoutAt'[id] = safetyTimeoutAt[id]
          /\ LeavesDragging(id)
               => /\ last'.op \in {"mouseUp", "doubleClick", "safetyTimeout"}
                  /\ last'.op = "safetyTimeout" => last'.id = id
          /\ TimeoutOf(id)
               => /\ isDragging[id] /\ now >= safetyTimeoutAt[id]
                  /\ ~isDragging'[id] /\ isAnimating'[id]]_vars

\* the timeout has ended a drag that began after an earlier drag could have
\* begun and ended
C20_Witness ==
  /\ last.op = "safetyTimeout"
  /\ ~isDragging[last.id] /\ isAnimating[last.id]
  /\ now = StartTime + safetyMs \div 2 + safetyMs

\* ------------------------------------------------ properties of a dragged ball

\* C21: while a ball is dragged no tick changes the position or the velocity
\* the ball holds; the position of a dragged ball that stays mounted changes
\* in pointer-move steps only; and a pointer-move changes the position of a
\* dragged ball only.
C21_DraggedOnlyByPointer ==
  [][\A id \in Ids :
       /\ (isDragging[id] /\ last'.op = "tick")
            => position'[id] = position[id] /\ velocity'[id] = velocity[id]
       /\ (isDragging[id] /\ (Mounted(id))' /\ position'[id] # position[id])
            => last'.op = "mouseMove"
       /\ (last'.op = "mouseMove" /\ position'[id] # position[id])
            => isDragging[id]]_vars

\* another ball's tick has resolved a collision against a dragged ball, which
\* is where it was
C21_Witness ==
  /\ Ticked
  /\ \E b \in last.dragging :
       /\ b \in UpdateIds(last.check.otherBallUpdates)
       /\ isDragging[b]
       /\ position[b] # StoreBall(b).position

\* ------------------------------------------- properties of the resolver, continued

\* the check of the acting ball against the k-th ball of the roster alone,
\* from position p and velocity v
AgainstOne(k, p, v) == checkCollisions(call.id, p, v, <<balls[1], balls[k]>>, now)
\* the places in the roster of the balls named in the batch, in batch order
BatchPlaces == [i \in 1..Len(result.otherBallUpdates) |->
                  FindBall(balls, result.otherBallUpdates[i].id)]

\* C22: a check of the acting ball (first in the roster) against two further
\* balls gives what the check against the second ball alone gives when started
\* from what the check against the first ball alone returned: its position and
\* velocity, and a batch that is the first check's batch followed by the
\* second's. The batch names balls of the roster other than the acting ball,
\* each at most once, in roster order.
C22_SequentialInRosterOrder ==
  call.done =>
    /\ \A i \in 1..Len(result.otherBallUpdates) : BatchPlaces[i] > 1
    /\ \A i, j \in 1..Len(result.otherBallUpdates) :
         i < j => BatchPlaces[i] < BatchPlaces[j]
    /\ Len(balls) = 3 =>
         \E first \in {AgainstOne(2, call.position, call.velocity)} :
           \E second \in {AgainstOne(3, first.position, first.velocity)} :
             /\ result.position = second.position
             /\ result.velocity = second.velocity
             /\ result.collided = (first.collided \/ second.collided)
             /\ result.otherBallUpdates
                  = first.otherBallUpdates \o second.otherBallUpdates

\* both candidates were resolved, and the second one was given an update it
\* would not have been given from the original tentative state
C22_Witness ==
  /\ call.done
  /\ Len(balls) = 3
  /\ Len(result.otherBallUpdates) = 2
  /\ AgainstOne(3, call.position, call.velocity).otherBallUpdates
       # <<result.otherBallUpdates[2]>>

\* the acting ball as the loop holds it when it reaches the k-th ball of the
\* roster, and right after that iteration (C22)
RunningBefore(k) ==
  IF k = 3 THEN AgainstOne(2, call.position, call.velocity)
  ELSE [position |-> call.position, velocity |-> call.velocity]
RunningAfter(k) ==
  IF k = Len(balls) THEN result ELSE AgainstOne(k, call.position, call.velocity)
\* lines 118-129: the collision normal of the pair (acting ball, k-th ball)
NormalAt(k) == NormalOf(Geometry(balls[1], balls[k], RunningBefore(k).position))

\* C23 as claimed: after a check, for every pair it resolved, the relative
\* velocity along the pair's collision normal, computed from the acting
\* ball's returned velocity and the partner's deferred velocity, is >= 0, to
\* within the rounding of the fixed-point products (2 units of 0.01 px per tick).
C23_NotApproachingAfterCheck ==
  call.done =>
    \A i \in 1..Len(result.otherBallUpdates) :
      SpeedAlong(result.velocity, result.otherBallUpdates[i],
                 NormalAt(BatchPlaces[i])) >= -2

\* C23 amended: for every pair a check resolved, the relative velocity along
\* the pair's collision normal, computed from the acting ball's velocity right
\* after that pair was resolved (the returned velocity when no later pair of
\* the same check was resolved) and the partner's deferred velocity, is >= 0,
\* to within the same rounding.
C23_NotApproachingAfterPair ==
  call.done =>
    \A i \in 1..Len(result.otherBallUpdates) :
      SpeedAlong(RunningAfter(BatchPlaces[i]).velocity, result.otherBallUpdates[i],
                 NormalAt(BatchPlaces[i])) >= -2

\* two pairs were resolved in one check, each of them approaching before and
\* separating right after
C23_Witness ==
  /\ call.done
  /\ Len(result.otherBallUpdates) = 2
  /\ \A i \in 1..2 :
       /\ SpeedAlong(RunningBefore(BatchPlaces[i]).velocity, balls[BatchPlaces[i]],
                     NormalAt(BatchPlaces[i])) < 0
       /\ SpeedAlong(RunningAfter(BatchPlaces[i]).velocity, result.otherBallUpdates[i],
                     NormalAt(BatchPlaces[i])) > 0

\* ------------------------------------------- two balls in flight at the left wall

WallVelocities == {ZeroVec, Vec(Px(3), 0), Vec(Px(6), 0)}
WallOtherVelocities == {ZeroVec, Vec(Px(1), 0)}
WallGaps == {Px(70), Px(78)}
\* the acting ball is one pixel from the left wall
WallAt == Vec(Px(1), Px(300))

\* two mounted size-80 balls in an 800x600 container, overlapping, the left
\* one next to the wall; the roster holds what the balls hold
InitWall ==
  \E velA \in WallVelocities, velB \in WallOtherVelocities, gap \in WallGaps :
    /\ balls = <<BallData(1, WallAt, velA, Px(80), FALSE, 0),
                 BallData(2, Vec(WallAt.x + gap, WallAt.y), velB, Px(80), FALSE, 0)>>
    /\ nextId = 3
    /\ now = StartTime
    /\ containerEl = [width |-> Px(800), height |-> Px(600)]
    /\ position = [i \in Ids |-> IF i = 1 THEN WallAt
                                 ELSE IF i = 2 THEN Vec(WallAt.x + gap, WallAt.y)
                                 ELSE ZeroVec]
    /\ velocity = [i \in Ids |-> IF i = 1 THEN velA ELSE IF i = 2 THEN velB ELSE ZeroVec]
    /\ isAnimating = [i \in Ids |-> i \in {1, 2}]
    /\ isDragging = [i \in Ids |-> FALSE]
    /\ containerBounds = [i \in Ids |-> IF i \in {1, 2} THEN containerEl
                                        ELSE [width |-> 0, height |-> 0]]
    /\ dragBounds = [i \in Ids |-> [width |-> 0, height |-> 0]]
    /\ dragOffsetRef = [i \in Ids |-> ZeroVec]
    /\ lastMousePosRef = [i \in Ids |-> ZeroVec]
    /\ dragVelocityRef = [i \in Ids |-> ZeroVec]
    /\ safetyTimeoutAt = [i \in Ids |-> 0]
    /\ posShared = [i \in Ids |-> i \in {1, 2}]
    /\ velShared = [i \in Ids |-> i \in {1, 2}]
    /\ last = Op("init", 0)
    /\ steps = 0
    /\ call = NoCall
    /\ result = NoResult

\* the two intervals fire in any order as the clock moves on
SpecWall == InitWall /\ [][NextPair]_vars

\* lines 197-212: where the last tick stood when it came to the side walls
AtWalls == Adopt(last.tentative, last.check).position
\* line 212: the side-wall branch fired, at the left or at the right wall
LeftWallFired == Ticked /\ AtWalls.x <= 0
RightWallFired ==
  Ticked /\ AtWalls.x > 0 /\ AtWalls.x >= last.bounds.width - SizeOf(last.id)

\* C24 as claimed: after a tick in which the side-wall branch fired the
\* ball's horizontal velocity is zero or points into the container, >= 0 at
\* the left wall and <= 0 at the right wall.
C24_WallSendsInward ==
  /\ LeftWallFired => velocity[last.id].x >= 0
  /\ RightWallFired => velocity[last.id].x <= 0

====
